---- MODULE Spec2Model ----
(***************************************************************************)
(* Model of src/main.py: process_images_to_srt_core, the ordered           *)
(* concurrent batch engine that turns a directory of timestamped images    *)
(* into an SRT document.                                                   *)
(*                                                                         *)
(* A filename is a sequence of one-character strings, so that the regular  *)
(* expression, the string sort key and the int()/format round trip are     *)
(* computed the way the code computes them.                                *)
(***************************************************************************)
EXTENDS Integers, Sequences, FiniteSets, TLC

(***************************************************************************)
(* Bounds of the model.                                                    *)
(***************************************************************************)
MaxFiles == 3
MaxThreads == 2

(***************************************************************************)
(* Characters.                                                             *)
(***************************************************************************)
Digits == {"0", "1", "2", "3", "4", "5", "6", "7", "8", "9"}

DigitVal(c) ==
    CASE c = "0" -> 0 [] c = "1" -> 1 [] c = "2" -> 2 [] c = "3" -> 3
      [] c = "4" -> 4 [] c = "5" -> 5 [] c = "6" -> 6 [] c = "7" -> 7
      [] c = "8" -> 8 [] c = "9" -> 9

DigitChar(d) ==
    CASE d = 0 -> "0" [] d = 1 -> "1" [] d = 2 -> "2" [] d = 3 -> "3"
      [] d = 4 -> "4" [] d = 5 -> "5" [] d = 6 -> "6" [] d = 7 -> "7"
      [] d = 8 -> "8" [] d = 9 -> "9"

\* str.lower() / re.IGNORECASE on the letters an extension can hold.
Lower(c) ==
    CASE c = "J" -> "j" [] c = "P" -> "p" [] c = "E" -> "e" [] c = "G" -> "g"
      [] OTHER -> c

LowerStr(s) == [k \in 1..Len(s) |-> Lower(s[k])]

\* str.endswith(suffix)
EndsWith(s, suf) ==
    /\ Len(s) >= Len(suf)
    /\ SubSeq(s, Len(s) - Len(suf) + 1, Len(s)) = suf

DotJpg == <<".", "j", "p", "g">>
DotJpeg == <<".", "j", "p", "e", "g">>

\* filename.lower().endswith(('.jpg', '.jpeg'))
HasJpegExtension(f) ==
    EndsWith(LowerStr(f), DotJpg) \/ EndsWith(LowerStr(f), DotJpeg)

(***************************************************************************)
(* filename_pattern:                                                       *)
(*  ^(\d+)_(\d{2})_(\d{2})_(\d{3})__(\d+)_(\d{2})_(\d{2})_(\d{3}).*?\.(jpe?g)$ *)
(* Every digit group is followed by a non-digit, so the greedy \d+ has one *)
(* possible extent; the lazy .*? followed by \.(jpe?g)$ accepts exactly    *)
(* the remainders that end in .jpg or .jpeg, case-insensitively.           *)
(***************************************************************************)
RECURSIVE DigitRun(_, _)
\* Position just after the longest run of digits of f starting at p.
DigitRun(f, p) ==
    IF p <= Len(f) /\ f[p] \in Digits THEN DigitRun(f, p + 1) ELSE p

\* \d+ at p: the end position, 0 when no digit is there.
ManyDigits(f, p) ==
    IF p = 0 THEN 0
    ELSE IF DigitRun(f, p) > p THEN DigitRun(f, p) ELSE 0

\* \d{w} at p: the end position, 0 when fewer than w digits are there.
FixedDigits(f, p, w) ==
    IF p = 0 THEN 0
    ELSE IF p + w - 1 <= Len(f) /\ \A k \in p..(p + w - 1) : f[k] \in Digits
         THEN p + w ELSE 0

\* a literal "_" at p: the end position, 0 when it is not there.
Underscore(f, p) ==
    IF p = 0 THEN 0
    ELSE IF p <= Len(f) /\ f[p] = "_" THEN p + 1 ELSE 0

\* The extension group of a remainder r matched by .*?\.(jpe?g)$, <<>> when none.
ExtensionGroup(r) ==
    IF EndsWith(LowerStr(r), DotJpeg) THEN SubSeq(r, Len(r) - 3, Len(r))
    ELSE IF EndsWith(LowerStr(r), DotJpg) THEN SubSeq(r, Len(r) - 2, Len(r))
    ELSE <<>>

NoMatch == <<>>

\* filename_pattern.match(f).groups(), NoMatch when match() returns None.
PatternGroups(f) ==
    LET a1 == ManyDigits(f, 1)
        a2 == FixedDigits(f, Underscore(f, a1), 2)
        a3 == FixedDigits(f, Underscore(f, a2), 2)
        a4 == FixedDigits(f, Underscore(f, a3), 3)
        b0 == Underscore(f, Underscore(f, a4))
        b1 == ManyDigits(f, b0)
        b2 == FixedDigits(f, Underscore(f, b1), 2)
        b3 == FixedDigits(f, Underscore(f, b2), 2)
        b4 == FixedDigits(f, Underscore(f, b3), 3)
        rest == SubSeq(f, b4, Len(f))
    IN  IF b4 = 0 \/ ExtensionGroup(rest) = <<>> THEN NoMatch
        ELSE << SubSeq(f, 1, a1 - 1),
                SubSeq(f, a1 + 1, a2 - 1),
                SubSeq(f, a2 + 1, a3 - 1),
                SubSeq(f, a3 + 1, a4 - 1),
                SubSeq(f, b0, b1 - 1),
                SubSeq(f, b1 + 1, b2 - 1),
                SubSeq(f, b2 + 1, b3 - 1),
                SubSeq(f, b3 + 1, b4 - 1),
                ExtensionGroup(rest) >>

Matches(f) == PatternGroups(f) # NoMatch

(***************************************************************************)
(* int() and the format specs of format_srt_time.                          *)
(***************************************************************************)
RECURSIVE ToInt(_)
\* int(s) of a digit string
ToInt(s) ==
    IF Len(s) = 0 THEN 0
    ELSE 10 * ToInt(SubSeq(s, 1, Len(s) - 1)) + DigitVal(s[Len(s)])

RECURSIVE Decimal(_)
\* the decimal digits of n >= 0, no padding
Decimal(n) ==
    IF n < 10 THEN <<DigitChar(n)>>
    ELSE Append(Decimal(n \div 10), DigitChar(n % 10))

RECURSIVE ZeroPad(_, _)
\* {n:0wd}: pads to at least w digits, never truncates
ZeroPad(s, w) == IF Len(s) >= w THEN s ELSE ZeroPad(<<"0">> \o s, w)

\* a bug that renders the hours with the format {int(h)}, without the 02d
format_srt_time_unpadded_hours(h, m, s, ms) ==
    Decimal(ToInt(h)) \o <<":">> \o
    ZeroPad(Decimal(ToInt(m)), 2) \o <<":">> \o
    ZeroPad(Decimal(ToInt(s)), 2) \o <<",">> \o
    ZeroPad(Decimal(ToInt(ms)), 3)

\* f"{int(h):02d}:{int(m):02d}:{int(s):02d},{int(ms):03d}"
format_srt_time(h, m, s, ms) ==
    ZeroPad(Decimal(ToInt(h)), 2) \o <<":">> \o
    ZeroPad(Decimal(ToInt(m)), 2) \o <<":">> \o
    ZeroPad(Decimal(ToInt(s)), 2) \o <<",">> \o
    ZeroPad(Decimal(ToInt(ms)), 3)

(***************************************************************************)
(* The sort of line 130: list.sort (stable) on the key groups()[:4], a     *)
(* tuple of four STRINGS, compared as Python compares tuples of str.       *)
(***************************************************************************)
RECURSIVE StrLess(_, _)
\* a < b for Python str (code point order; a proper prefix is smaller)
StrLess(a, b) ==
    IF Len(b) = 0 THEN FALSE
    ELSE IF Len(a) = 0 THEN TRUE
    ELSE IF a[1] # b[1] THEN DigitVal(a[1]) < DigitVal(b[1])
    ELSE StrLess(Tail(a), Tail(b))

RECURSIVE TupleLess(_, _)
\* x < y for Python tuples of str of equal length
TupleLess(x, y) ==
    IF Len(x) = 0 \/ Len(y) = 0 THEN Len(x) < Len(y)
    ELSE IF x[1] # y[1] THEN StrLess(x[1], y[1])
    ELSE TupleLess(Tail(x), Tail(y))

\* key=lambda f: filename_pattern.match(f).groups()[:4]
SortKey(f) == SubSeq(PatternGroups(f), 1, 4)

\* the order list.sort applies to two keys
KeyLess(x, y) == TupleLess(x, y)

RECURSIVE InsertSorted(_, _)
\* f goes after every element whose key is not greater than its own
InsertSorted(sorted, f) ==
    IF Len(sorted) = 0 THEN <<f>>
    ELSE IF KeyLess(SortKey(f), SortKey(sorted[Len(sorted)]))
         THEN Append(InsertSorted(SubSeq(sorted, 1, Len(sorted) - 1), f),
                     sorted[Len(sorted)])
         ELSE Append(sorted, f)

RECURSIVE StableSort(_)
\* list.sort(key=...): the unique stable arrangement by KeyLess
StableSort(fs) ==
    IF Len(fs) = 0 THEN <<>>
    ELSE InsertSorted(StableSort(SubSeq(fs, 1, Len(fs) - 1)), fs[Len(fs)])

(***************************************************************************)
(* The input directory: names os.listdir can return.                       *)
(***************************************************************************)
Stamp(h, m, s, ms) == h \o <<"_">> \o m \o <<"_">> \o s \o <<"_">> \o ms

\* 2_00_01_000__2_00_02_500.jpg
FileA ==
    Stamp(<<"2">>, <<"0","0">>, <<"0","1">>, <<"0","0","0">>) \o <<"_","_">> \o
    Stamp(<<"2">>, <<"0","0">>, <<"0","2">>, <<"5","0","0">>) \o DotJpg

\* 02_00_01_000__02_00_03_000_b.JPG : the same start time as FileA, written 02
FileB ==
    Stamp(<<"0","2">>, <<"0","0">>, <<"0","1">>, <<"0","0","0">>) \o <<"_","_">> \o
    Stamp(<<"0","2">>, <<"0","0">>, <<"0","3">>, <<"0","0","0">>) \o
    <<"_", "b", ".", "J", "P", "G">>

\* 10_00_00_500__10_00_01_000.jpeg
FileC ==
    Stamp(<<"1","0">>, <<"0","0">>, <<"0","0">>, <<"5","0","0">>) \o <<"_","_">> \o
    Stamp(<<"1","0">>, <<"0","0">>, <<"0","1">>, <<"0","0","0">>) \o DotJpeg

\* 2_00_01_00__2_00_02_000.jpg : a two-digit millisecond field, no match
FileD ==
    Stamp(<<"2">>, <<"0","0">>, <<"0","1">>, <<"0","0">>) \o <<"_","_">> \o
    Stamp(<<"2">>, <<"0","0">>, <<"0","2">>, <<"0","0","0">>) \o DotJpg

\* notes.txt
FileE == <<"n", "o", "t", "e", "s", ".", "t", "x", "t">>

DirNames == {FileA, FileB, FileC, FileD, FileE}

\* The listings of a directory: its names are distinct, in any order.
Listings ==
    { l \in UNION { [1..n -> DirNames] : n \in 0..MaxFiles } :
        \A a, b \in 1..Len(l) : a # b => l[a] # l[b] }

\* The input directory on disk: absent, or present with a listing.
NoDir == [exists |-> FALSE, names |-> <<>>]
InputFolders == {NoDir} \cup { [exists |-> TRUE, names |-> l] : l \in Listings }

\* What the recognition service reads in an image, when it reads anything.
ImageText(f) ==
    CASE f = FileA -> "text of A"
      [] f = FileB -> "text of B"
      [] f = FileC -> "text of C"
      [] OTHER -> "text"

FailureMarkers == {"[OCR Blocked]", "[OCR Stopped]", "[File Not Found]", "[OCR Error]"}

\* A returned value of ocr_image_with_gemini, or an exception leaving it.
Returned(text) == [result |-> text, raised |-> FALSE]
Raised == [result |-> "", raised |-> TRUE]

\* ocr_image_with_gemini(model, image_path, log_callback): what a call can end in.
OcrOutcomes(f) ==
    {Returned(ImageText(f)), Returned("")}
      \cup {Returned(mk) : mk \in FailureMarkers}
      \cup {Raised}

(***************************************************************************)
(* State of one call of process_images_to_srt_core.                        *)
(***************************************************************************)
VARIABLES
    api_key,              \* argument: "" when not set
    input_folder,         \* the directory on disk, one of InputFolders
    num_threads,          \* argument
    pc,                   \* position of the calling thread in the function
    output_folder_made,   \* os.makedirs(output_folder) has run
    listed,               \* os.listdir(input_folder) has run
    all_files_in_input,
    image_files_temp,
    image_tasks_metadata,
    total_images,
    srt_entries,
    srt_counter,
    processed_image_count,
    future_to_ocr,        \* the futures, in submission order
    pool_threads,         \* worker threads the executor has created
    i,                    \* index of the collection loop (1-based)
    log,                  \* log_callback lines of the calling thread, in order
    worker_log,           \* log_callback lines of the workers
    progress,             \* progress_callback events, in order
    document,             \* the file written, NoDocument before
    returned              \* return value: "none" while running

NoDocument == [written |-> FALSE, entries |-> <<>>]

LogLine(kind, file, text, num) ==
    [kind |-> kind, file |-> file, text |-> text, num |-> num]

(***************************************************************************)
(* The window (class App): the widgets and queues its handlers touch.      *)
(***************************************************************************)
VARIABLES
    process_button,       \* state of the Process button: "normal" or "disabled"
    status_var,           \* text of the status line
    log_queue,            \* self.log_queue: messages put and not yet taken
    log_text,             \* texts of the lines the log display holds
    progress_label_var,   \* the progress label
    threads,              \* run_core_processing threads that have not finished
    after_callbacks,      \* update_gui_on_finish closures root.after holds
    finishing,            \* the closure whose dialog is open, <<>> when none
    batches,              \* number of batches launched so far
    batch                 \* the run of the core launched last

guiVars == << process_button, status_var, log_queue, log_text, progress_label_var,
              threads, after_callbacks, finishing, batches, batch >>

vars == << api_key, input_folder, num_threads, pc, output_folder_made, listed,
           all_files_in_input, image_files_temp, image_tasks_metadata,
           total_images, srt_entries, srt_counter, processed_image_count,
           future_to_ocr, pool_threads, i, log, worker_log, progress,
           document, returned,
           process_button, status_var, log_queue, log_text, progress_label_var,
           threads, after_callbacks, finishing, batches, batch >>

\* the label text f"{current}/{total}" and the two texts the finish callback sets
Label(text, current, total) == [text |-> text, current |-> current, total |-> total]

\* no batch was launched yet
NoRun == [kind |-> "none", n |-> 0]

\* lines 201-319: the window after App(root)
GuiConstructed ==
    /\ process_button = "normal"
    /\ status_var = "Ready."
    /\ log_queue = <<>>
    /\ log_text = {}
    /\ progress_label_var = Label("count", 0, 0)
    /\ threads = {}
    /\ after_callbacks = <<>>
    /\ finishing = <<>>
    /\ batches = 0
    /\ batch = NoRun

Init ==
    /\ api_key \in {"", "key"}
    /\ input_folder \in InputFolders
    /\ num_threads \in 1..MaxThreads
    /\ pc = "start"
    /\ output_folder_made = FALSE
    /\ listed = FALSE
    /\ all_files_in_input = <<>>
    /\ image_files_temp = <<>>
    /\ image_tasks_metadata = <<>>
    /\ total_images = 0
    /\ srt_entries = <<>>
    /\ srt_counter = 1
    /\ processed_image_count = 0
    /\ future_to_ocr = <<>>
    /\ pool_threads = 0
    /\ i = 1
    /\ log = <<>>
    /\ worker_log = {}
    /\ progress = <<>>
    /\ document = NoDocument
    /\ returned = "none"
    /\ GuiConstructed

(***************************************************************************)
(* Lines 91-127: arguments, client, directories, the filter loop.          *)
(***************************************************************************)
\* return False
ReturnFalse ==
    /\ returned' = "False"
    /\ pc' = "returned"

\* lines 91-99
CheckApiKey ==
    /\ pc = "start"
    /\ IF api_key = ""
       THEN /\ log' = log \o << LogLine("Starting processing", <<>>, "", num_threads),
                                LogLine("Error: Google API Key is not set.", <<>>, "", 0) >>
            /\ ReturnFalse
       ELSE /\ log' = Append(log, LogLine("Starting processing", <<>>, "", num_threads))
            /\ pc' = "configure"
            /\ UNCHANGED returned
    /\ UNCHANGED << api_key, input_folder, num_threads, output_folder_made, listed,
                    all_files_in_input, image_files_temp, image_tasks_metadata,
                    total_images, srt_entries, srt_counter, processed_image_count,
                    future_to_ocr, pool_threads, i, worker_log, progress, document >>
    /\ UNCHANGED guiVars

\* lines 101-106: genai.configure / GenerativeModel may raise
ConfigureModel ==
    /\ pc = "configure"
    /\ \E ok \in BOOLEAN :
         IF ok
         THEN /\ pc' = "check_input"
              /\ UNCHANGED << log, returned >>
         ELSE /\ log' = Append(log, LogLine("Error configuring Gemini or creating model", <<>>, "", 0))
              /\ ReturnFalse
    /\ UNCHANGED << api_key, input_folder, num_threads, output_folder_made, listed,
                    all_files_in_input, image_files_temp, image_tasks_metadata,
                    total_images, srt_entries, srt_counter, processed_image_count,
                    future_to_ocr, pool_threads, i, worker_log, progress, document >>
    /\ UNCHANGED guiVars

\* a bug that skips the check of line 108
InputFolderFoundAlways == TRUE

\* line 108: os.path.isdir(input_folder)
InputFolderFound == input_folder.exists

\* lines 108-110
CheckInputFolder ==
    /\ pc = "check_input"
    /\ IF ~InputFolderFound
       THEN /\ log' = Append(log, LogLine("Error: Input folder not found.", <<>>, "", 0))
            /\ ReturnFalse
       ELSE /\ pc' = "makedirs"
            /\ UNCHANGED << log, returned >>
    /\ UNCHANGED << api_key, input_folder, num_threads, output_folder_made, listed,
                    all_files_in_input, image_files_temp, image_tasks_metadata,
                    total_images, srt_entries, srt_counter, processed_image_count,
                    future_to_ocr, pool_threads, i, worker_log, progress, document >>
    /\ UNCHANGED guiVars

\* line 112
MakeOutputFolder ==
    /\ pc = "makedirs"
    /\ output_folder_made' = TRUE
    /\ pc' = "listdir"
    /\ UNCHANGED << api_key, input_folder, num_threads, listed,
                    all_files_in_input, image_files_temp, image_tasks_metadata,
                    total_images, srt_entries, srt_counter, processed_image_count,
                    future_to_ocr, pool_threads, i, log, worker_log, progress,
                    document, returned >>
    /\ UNCHANGED guiVars

\* lines 114-115
ListInputFolder ==
    /\ pc = "listdir"
    /\ all_files_in_input' = input_folder.names
    /\ listed' = TRUE
    /\ image_files_temp' = <<>>
    /\ pc' = "filter"
    /\ UNCHANGED << api_key, input_folder, num_threads, output_folder_made,
                    image_tasks_metadata,
                    total_images, srt_entries, srt_counter, processed_image_count,
                    future_to_ocr, pool_threads, i, log, worker_log, progress,
                    document, returned >>
    /\ UNCHANGED guiVars

\* The filenames the loop of lines 116-119 appends, in enumeration order.
MatchingFiles(files) == SelectSeq(files, Matches)

\* a bug that tests the extension without lower()
ReportedSkipCaseSensitive(f) ==
    ~Matches(f) /\ (EndsWith(f, DotJpg) \/ EndsWith(f, DotJpeg))

\* filename is reported as skipped (lines 120-122)
ReportedSkip(f) == ~Matches(f) /\ HasJpegExtension(f)

RECURSIVE SkipLines(_)
\* The log lines of lines 120-122, in enumeration order.
SkipLines(files) ==
    IF Len(files) = 0 THEN <<>>
    ELSE IF ReportedSkip(Head(files))
         THEN <<LogLine("Skipping file (doesn't match naming pattern)", Head(files), "", 0)>>
                \o SkipLines(Tail(files))
         ELSE SkipLines(Tail(files))

\* lines 116-122
FilterFiles ==
    /\ pc = "filter"
    /\ image_files_temp' = MatchingFiles(all_files_in_input)
    /\ log' = log \o SkipLines(all_files_in_input)
    /\ pc' = "check_empty"
    /\ UNCHANGED << api_key, input_folder, num_threads, output_folder_made, listed,
                    all_files_in_input, image_tasks_metadata,
                    total_images, srt_entries, srt_counter, processed_image_count,
                    future_to_ocr, pool_threads, i, worker_log, progress,
                    document, returned >>
    /\ UNCHANGED guiVars

\* a bug that forgets the progress event of line 126
NoImagesEventsNone == <<>>

\* line 126: progress_callback(0,0)
NoImagesEvents == << <<0, 0>> >>

\* lines 124-127
CheckNoImages ==
    /\ pc = "check_empty"
    /\ IF image_files_temp = <<>>
       THEN /\ log' = Append(log, LogLine("No images found matching the required filename pattern.", <<>>, "", 0))
            /\ progress' = progress \o NoImagesEvents
            /\ ReturnFalse
       ELSE /\ pc' = "sort"
            /\ UNCHANGED << log, progress, returned >>
    /\ UNCHANGED << api_key, input_folder, num_threads, output_folder_made, listed,
                    all_files_in_input, image_files_temp, image_tasks_metadata,
                    total_images, srt_entries, srt_counter, processed_image_count,
                    future_to_ocr, pool_threads, i, worker_log, document >>
    /\ UNCHANGED guiVars

(***************************************************************************)
(* Lines 129-156: sort, task metadata, counters.                           *)
(***************************************************************************)
\* line 130
SortFiles ==
    /\ pc = "sort"
    /\ image_files_temp' = StableSort(image_files_temp)
    /\ pc' = "build"
    /\ UNCHANGED << api_key, input_folder, num_threads, output_folder_made, listed,
                    all_files_in_input, image_tasks_metadata,
                    total_images, srt_entries, srt_counter, processed_image_count,
                    future_to_ocr, pool_threads, i, log, worker_log, progress,
                    document, returned >>
    /\ UNCHANGED guiVars

\* lines 134-143: one element of image_tasks_metadata
TaskMeta(f) ==
    LET groups == PatternGroups(f)
    IN  [ filename |-> f,
          start_time_str |-> format_srt_time(groups[1], groups[2], groups[3], groups[4]),
          end_time_str |-> format_srt_time(groups[5], groups[6], groups[7], groups[8]) ]

\* lines 132-143
BuildTasks ==
    /\ pc = "build"
    /\ image_tasks_metadata' =
           [k \in 1..Len(image_files_temp) |-> TaskMeta(image_files_temp[k])]
    /\ pc' = "count"
    /\ UNCHANGED << api_key, input_folder, num_threads, output_folder_made, listed,
                    all_files_in_input, image_files_temp,
                    total_images, srt_entries, srt_counter, processed_image_count,
                    future_to_ocr, pool_threads, i, log, worker_log, progress,
                    document, returned >>
    /\ UNCHANGED guiVars

\* lines 145-158: the count, the initial progress event, the counters, the executor
CountTasks ==
    /\ pc = "count"
    /\ total_images' = Len(image_tasks_metadata)
    /\ IF Len(image_tasks_metadata) = 0
       THEN /\ log' = Append(log, LogLine("No valid image tasks to process after filtering and sorting.", <<>>, "", 0))
            /\ progress' = Append(progress, <<0, 0>>)
            /\ ReturnFalse
            /\ UNCHANGED << srt_entries, srt_counter, processed_image_count,
                            future_to_ocr, pool_threads >>
       ELSE /\ log' = Append(log, LogLine("Found images to process.", <<>>, "", Len(image_tasks_metadata)))
            /\ progress' = Append(progress, <<0, Len(image_tasks_metadata)>>)
            /\ srt_entries' = <<>>
            /\ srt_counter' = 1
            /\ processed_image_count' = 0
            /\ future_to_ocr' = <<>>
            /\ pool_threads' = 0
            /\ pc' = "submit"
            /\ UNCHANGED returned
    /\ UNCHANGED << api_key, input_folder, num_threads, output_folder_made, listed,
                    all_files_in_input, image_files_temp, image_tasks_metadata,
                    i, worker_log, document >>
    /\ UNCHANGED guiVars

(***************************************************************************)
(* Lines 158-164: the executor and the submissions.                        *)
(* ThreadPoolExecutor: submit() queues a work item and creates a thread    *)
(* while fewer than max_workers exist; each thread runs one item at a      *)
(* time, taken from the head of the FIFO queue.                            *)
(***************************************************************************)
\* a bug that sizes the pool one thread too large
max_workers_plus_one == num_threads + 1

\* a bug that sizes the pool one thread too small
max_workers_minus_one == num_threads - 1

\* ThreadPoolExecutor(max_workers=num_threads)
max_workers == num_threads

PendingFuture == [state |-> "PENDING", result |-> "", raised |-> FALSE]

Running == { j \in 1..Len(future_to_ocr) : future_to_ocr[j].state = "RUNNING" }
Queued == { j \in 1..Len(future_to_ocr) : future_to_ocr[j].state = "PENDING" }

\* a bug that submits a window of num_threads tasks before collecting
AllSubmittedWindow(n) == n = total_images \/ n = num_threads

\* lines 161-164: the comprehension ends when every task has been submitted
AllSubmitted(n) == n = total_images

\* one executor.submit(...) of the comprehension of lines 161-164
Submit ==
    /\ pc = "submit"
    /\ Len(future_to_ocr) < total_images
    /\ future_to_ocr' = Append(future_to_ocr, PendingFuture)
    /\ pool_threads' = IF pool_threads < max_workers THEN pool_threads + 1
                       ELSE pool_threads
    /\ IF AllSubmitted(Len(future_to_ocr) + 1)
       THEN pc' = "collect_log" /\ i' = 1
       ELSE UNCHANGED << pc, i >>
    /\ UNCHANGED << api_key, input_folder, num_threads, output_folder_made, listed,
                    all_files_in_input, image_files_temp, image_tasks_metadata,
                    total_images, srt_entries, srt_counter, processed_image_count,
                    log, worker_log, progress, document, returned >>
    /\ UNCHANGED guiVars

\* a free worker thread takes the head of the queue and calls ocr_image_with_gemini
WorkerStart ==
    /\ Queued # {}
    /\ Cardinality(Running) < pool_threads
    /\ LET j == CHOOSE q \in Queued : \A r \in Queued : q <= r
       IN  future_to_ocr' = [future_to_ocr EXCEPT ![j].state = "RUNNING"]
    /\ UNCHANGED << api_key, input_folder, num_threads, pc, output_folder_made,
                    listed, all_files_in_input, image_files_temp,
                    image_tasks_metadata, total_images, srt_entries, srt_counter,
                    processed_image_count, pool_threads, i, log, worker_log,
                    progress, document, returned >>
    /\ UNCHANGED guiVars

\* The log_callback lines of ocr_image_with_gemini (lines 72-88) for an outcome.
WorkerLines(f, o) ==
    IF o.raised \/ o.result = ImageText(f) THEN {}
    ELSE IF o.result = ""
         THEN {LogLine("Warning: empty or blocked response", f, "", 0)}
         ELSE {LogLine("Error", f, o.result, 0)}

\* a bug that queues the task again when the call ended in a failure marker
FutureAfterCallRetry(o) ==
    IF o.result \in FailureMarkers THEN PendingFuture
    ELSE [state |-> "FINISHED", result |-> o.result, raised |-> o.raised]

\* the future of a call that ended: its outcome is final, nothing is retried
FutureAfterCall(o) == [state |-> "FINISHED", result |-> o.result, raised |-> o.raised]

\* lines 56-88: a running call ends, and its future gets the outcome
WorkerFinish ==
    /\ \E j \in Running :
         \E o \in OcrOutcomes(image_tasks_metadata[j].filename) :
            /\ future_to_ocr' = [future_to_ocr EXCEPT ![j] = FutureAfterCall(o)]
            /\ worker_log' = worker_log \cup WorkerLines(image_tasks_metadata[j].filename, o)
    /\ UNCHANGED << api_key, input_folder, num_threads, pc, output_folder_made,
                    listed, all_files_in_input, image_files_temp,
                    image_tasks_metadata, total_images, srt_entries, srt_counter,
                    processed_image_count, pool_threads, i, log,
                    progress, document, returned >>
    /\ UNCHANGED guiVars

(***************************************************************************)
(* Lines 166-187: collection in task order.                                *)
(***************************************************************************)
\* a bug that reads the futures from the other end of the list
CollectedFutureReversed(idx) == Len(future_to_ocr) + 1 - idx

\* line 168: future = future_to_ocr[i]
CollectedFuture(idx) == idx

\* a bug that forgets the failure markers
SurvivesNonEmpty(ocr_text) == ocr_text # ""

\* line 175: the condition under which an entry is written
Survives(ocr_text) == ocr_text # "" /\ ocr_text \notin FailureMarkers

\* line 176: srt_entry
SrtEntry(counter, task_meta, ocr_text) ==
    [ index |-> counter,
      start |-> task_meta.start_time_str,
      end |-> task_meta.end_time_str,
      text |-> ocr_text ]

\* a bug that forgets to advance the counter
NextCounterStuck(counter) == counter

\* line 178
NextCounter(counter) == counter + 1

\* a bug that counts inside the try block, so that an exception skips the count
ProcessedAfterInsideTry(raised, count) == IF raised THEN count ELSE count + 1

\* line 186, after the try statement: counted whether or not result() raised
ProcessedAfter(raised, count) == count + 1

\* a bug that reports before counting
ProgressEventStale(count, total) == <<count - 1, total>>

\* line 187: progress_callback(processed_image_count, total_images)
ProgressEvent(count, total) == <<count, total>>

\* a bug that reads the future without waiting for it
ResultReadyNoWait(future) == TRUE

\* line 173: future.result() blocks until this future is done
ResultReady(future) == future.state = "FINISHED"

\* lines 167-170: the loop takes task i and logs "Done" before it waits
CollectLog ==
    /\ pc = "collect_log"
    /\ log' = Append(log, LogLine("Done", image_tasks_metadata[i].filename, "", i))
    /\ pc' = "collect_result"
    /\ UNCHANGED << api_key, input_folder, num_threads, output_folder_made, listed,
                    all_files_in_input, image_files_temp, image_tasks_metadata,
                    total_images, srt_entries, srt_counter, processed_image_count,
                    future_to_ocr, pool_threads, i, worker_log, progress,
                    document, returned >>
    /\ UNCHANGED guiVars

\* lines 172-187: future.result() returns or raises once the future is done
CollectResult ==
    /\ pc = "collect_result"
    /\ LET future == future_to_ocr[CollectedFuture(i)]
           task_meta == image_tasks_metadata[i]
       IN  /\ ResultReady(future)
           /\ IF future.raised
              THEN /\ log' = Append(log, LogLine("Critical Error processing result",
                                                 task_meta.filename, "", 0))
                   /\ UNCHANGED << srt_entries, srt_counter >>
              ELSE IF Survives(future.result)
                   THEN /\ srt_entries' = Append(srt_entries,
                               SrtEntry(srt_counter, task_meta, future.result))
                        /\ srt_counter' = NextCounter(srt_counter)
                        /\ UNCHANGED log
                   ELSE /\ log' = Append(log, LogLine("Skipping SRT entry",
                                                      task_meta.filename, future.result, 0))
                        /\ UNCHANGED << srt_entries, srt_counter >>
    /\ processed_image_count' =
           ProcessedAfter(future_to_ocr[CollectedFuture(i)].raised, processed_image_count)
    /\ progress' = Append(progress, ProgressEvent(processed_image_count', total_images))
    /\ IF i < Len(image_tasks_metadata)
       THEN i' = i + 1 /\ pc' = "collect_log"
       ELSE i' = i /\ pc' = "write"
    /\ UNCHANGED << api_key, input_folder, num_threads, output_folder_made, listed,
                    all_files_in_input, image_files_temp, image_tasks_metadata,
                    total_images, future_to_ocr, pool_threads, worker_log,
                    document, returned >>
    /\ UNCHANGED guiVars

(***************************************************************************)
(* Lines 189-198: the document.                                            *)
(***************************************************************************)
\* "\n".join(srt_entries): the entries, in list order
Joined(entries) == entries

\* a bug that reports an empty document as a failure
WriteSuccessStatusNeedsEntries(entries) == IF entries = <<>> THEN "False" ELSE "True"

\* line 195: return True, whatever the number of entries written
WriteSuccessStatus(entries) == "True"

\* a bug that reports success although the write failed
WriteFailureStatusTrue == "True"

\* line 198: return False
WriteFailureStatus == "False"

\* What outlives the call for its caller besides the status, the log lines and
\* the progress events: the file. srt_entries is a local of the call (line 154)
\* and is in no return value (lines 195, 198).
CallerEntries == IF document.written THEN document.entries ELSE <<>>

\* lines 189-198
WriteDocument ==
    /\ pc = "write"
    /\ \E ok \in BOOLEAN :
         IF ok
         THEN /\ document' = [written |-> TRUE, entries |-> Joined(srt_entries)]
              /\ log' = log \o << LogLine("Successfully created SRT file", <<>>, "", 0),
                                  LogLine("Total subtitle entries written", <<>>, "",
                                          Len(srt_entries)) >>
              /\ returned' = WriteSuccessStatus(srt_entries)
         ELSE /\ log' = Append(log, LogLine("Error writing SRT file", <<>>, "", 0))
              /\ returned' = WriteFailureStatus
              /\ UNCHANGED document
    /\ pc' = "returned"
    /\ UNCHANGED << api_key, input_folder, num_threads, output_folder_made, listed,
                    all_files_in_input, image_files_temp, image_tasks_metadata,
                    total_images, srt_entries, srt_counter, processed_image_count,
                    future_to_ocr, pool_threads, i, worker_log, progress >>
    /\ UNCHANGED guiVars

Next ==
    \/ CheckApiKey
    \/ ConfigureModel
    \/ CheckInputFolder
    \/ MakeOutputFolder
    \/ ListInputFolder
    \/ FilterFiles
    \/ CheckNoImages
    \/ SortFiles
    \/ BuildTasks
    \/ CountTasks
    \/ Submit
    \/ WorkerStart
    \/ WorkerFinish
    \/ CollectLog
    \/ CollectResult
    \/ WriteDocument

Spec == Init /\ [][Next]_vars

TypeOK ==
    /\ pc \in {"start", "configure", "check_input", "makedirs", "listdir", "filter",
               "check_empty", "sort", "build", "count", "submit", "collect_log",
               "collect_result", "write", "returned"}
    /\ returned \in {"none", "True", "False"}
    /\ pool_threads \in 0..MaxThreads

(***************************************************************************)
(* Properties.                                                             *)
(***************************************************************************)
NumTasks == Len(image_tasks_metadata)

\* The collection loop has taken the outcome of task j.
Collected(j) ==
    \/ pc \in {"write", "returned"} /\ j <= Len(future_to_ocr)
    \/ pc \in {"collect_log", "collect_result"} /\ j < i

\* Entry p carries the timestamps of task j.
StampsOf(p, j) ==
    /\ srt_entries[p].start = image_tasks_metadata[j].start_time_str
    /\ srt_entries[p].end = image_tasks_metadata[j].end_time_str

\* Entry p carries the timestamps of task j and the text returned for task j.
Owns(j, p) ==
    /\ StampsOf(p, j)
    /\ future_to_ocr[j].state = "FINISHED"
    /\ ~future_to_ocr[j].raised
    /\ srt_entries[p].text = future_to_ocr[j].result
    /\ srt_entries[p].text = ImageText(image_tasks_metadata[j].filename)

\* C1: whatever the order in which the workers finish, every entry carries the
\* timestamps and the text of one and the same task, the entries follow the
\* order of the task list, and the written document holds these entries.
C1_OrderedPairing ==
    /\ \A p \in 1..Len(srt_entries) : \E j \in 1..Len(future_to_ocr) : Owns(j, p)
    /\ \A p, q \in 1..Len(srt_entries) : \A j, k \in 1..Len(future_to_ocr) :
          (p < q /\ StampsOf(p, j) /\ StampsOf(q, k)) => j < k
    /\ document.written => document.entries = srt_entries

\* C1 witness: task 1 is collected and written while task 3 has finished before
\* task 2, which is still running.
C1_Witness ==
    /\ NumTasks = 3
    /\ Len(srt_entries) = 1
    /\ Len(future_to_ocr) = 3
    /\ future_to_ocr[2].state = "RUNNING"
    /\ future_to_ocr[3].state = "FINISHED"
    /\ Collected(1)

\* C2: the calls of ocr_image_with_gemini in progress never exceed the worker
\* count, nor the number of tasks.
C2_BoundedParallelism ==
    /\ Cardinality(Running) <= num_threads
    /\ Cardinality(Running) <= NumTasks
    /\ pool_threads <= num_threads
    /\ pool_threads <= NumTasks

\* C2 witness: both workers are busy while a third task waits in the queue.
C2_Witness ==
    /\ num_threads = 2
    /\ Cardinality(Running) = 2
    /\ Queued # {}

\* The start Timestamp of a matching filename as four integers.
IntKey(f) ==
    LET groups == PatternGroups(f)
    IN  << ToInt(groups[1]), ToInt(groups[2]), ToInt(groups[3]), ToInt(groups[4]) >>

\* x < y for tuples of four integers
IntTupleLess(x, y) ==
    \/ x[1] < y[1]
    \/ x[1] = y[1] /\ x[2] < y[2]
    \/ x[1] = y[1] /\ x[2] = y[2] /\ x[3] < y[3]
    \/ x[1] = y[1] /\ x[2] = y[2] /\ x[3] = y[3] /\ x[4] < y[4]

\* Position of a name in the directory enumeration.
EnumerationIndex(f) ==
    CHOOSE k \in 1..Len(all_files_in_input) : all_files_in_input[k] = f

\* C3: the task list is non-decreasing by the start timestamp compared as
\* (hours, minutes, seconds, milliseconds) integers, whatever the number of
\* digits of the hour fields.
C3_TasksNonDecreasingByIntegers ==
    \A a, b \in 1..NumTasks :
        a < b => ~IntTupleLess(IntKey(image_tasks_metadata[b].filename),
                               IntKey(image_tasks_metadata[a].filename))

\* C4: two tasks whose start Timestamps are equal as integers keep the order
\* in which the directory enumeration returned their filenames.
C4_IntegerTiesKeepEnumerationOrder ==
    \A a, b \in 1..NumTasks :
        ( /\ a < b
          /\ IntKey(image_tasks_metadata[a].filename)
               = IntKey(image_tasks_metadata[b].filename) )
        => EnumerationIndex(image_tasks_metadata[a].filename)
             < EnumerationIndex(image_tasks_metadata[b].filename)

\* The outcome of task j is text that is neither empty nor a failure marker.
GoodText(j) ==
    /\ future_to_ocr[j].state = "FINISHED"
    /\ ~future_to_ocr[j].raised
    /\ future_to_ocr[j].result # ""
    /\ future_to_ocr[j].result # "[OCR Blocked]"
    /\ future_to_ocr[j].result # "[OCR Stopped]"
    /\ future_to_ocr[j].result # "[File Not Found]"
    /\ future_to_ocr[j].result # "[OCR Error]"

\* C5: the indices of the entries are 1, 2, ..., K in document order, K being
\* the number of collected tasks whose result survived, in the list and in the
\* written document.
C5_GaplessIndices ==
    /\ \A p \in 1..Len(srt_entries) : srt_entries[p].index = p
    /\ Len(srt_entries) =
         Cardinality({ j \in 1..Len(future_to_ocr) : Collected(j) /\ GoodText(j) })
    /\ document.written =>
         /\ Len(document.entries) =
              Cardinality({ j \in 1..Len(future_to_ocr) : GoodText(j) })
         /\ \A p \in 1..Len(document.entries) : document.entries[p].index = p

\* C5 witness: a written document of two entries, 1 and 2, around a task skipped
\* by an exception at collection.
C5_Witness ==
    /\ pc = "returned"
    /\ document.written
    /\ NumTasks = 3
    /\ future_to_ocr[2].raised
    /\ Len(document.entries) = 2
    /\ document.entries[2].index = 2

\* Some entry carries the timestamps of task j.
HasEntry(j) == \E p \in 1..Len(srt_entries) : StampsOf(p, j)

\* C6: a collected task has an entry exactly when its result is non-empty text
\* that is no failure marker; every other collected task has no entry and a log
\* line reports it (the skip with its result, or the exception at collection).
C6_EntryIffGoodText ==
    \A j \in 1..Len(future_to_ocr) :
        Collected(j) =>
          /\ HasEntry(j) <=> GoodText(j)
          /\ GoodText(j) => \E p \in 1..Len(srt_entries) : Owns(j, p)
          /\ (~GoodText(j) /\ ~future_to_ocr[j].raised) =>
               \E n \in 1..Len(log) :
                  log[n] = LogLine("Skipping SRT entry", image_tasks_metadata[j].filename,
                                   future_to_ocr[j].result, 0)
          /\ future_to_ocr[j].raised =>
               \E n \in 1..Len(log) :
                  log[n] = LogLine("Critical Error processing result",
                                   image_tasks_metadata[j].filename, "", 0)

\* C6 witness: three tasks, the second blocked, the document holds entries 1 and
\* 2 with the timestamps and text of tasks 1 and 3.
C6_Witness ==
    /\ pc = "returned"
    /\ document.written
    /\ NumTasks = 3
    /\ GoodText(1) /\ GoodText(3)
    /\ future_to_ocr[2].result = "[OCR Blocked]"
    /\ Len(document.entries) = 2
    /\ document.entries[1].start = image_tasks_metadata[1].start_time_str
    /\ document.entries[2].start = image_tasks_metadata[3].start_time_str
    /\ document.entries[2].text = ImageText(image_tasks_metadata[3].filename)

\* The number of tasks the collection loop has taken.
CollectedCount == Cardinality({ j \in 1..Len(future_to_ocr) : Collected(j) })

\* C7: a task whose result() raised has no entry, is counted in progress like
\* any other, and the loop goes on: once the loop is left every task has been
\* collected and counted, and every task with good text has its entry.
C7_ExceptionContained ==
    /\ \A j \in 1..Len(future_to_ocr) :
          (Collected(j) /\ future_to_ocr[j].raised) =>
             /\ ~HasEntry(j)
             /\ \E n \in 1..Len(progress) : progress[n] = <<j, NumTasks>>
    /\ processed_image_count = CollectedCount
    /\ (pc \in {"write", "returned"} /\ NumTasks > 0) =>
          /\ processed_image_count = NumTasks
          /\ \A k \in 1..NumTasks : GoodText(k) => \E p \in 1..Len(srt_entries) : Owns(k, p)

\* C7 witness: result() raised for task 1, and tasks 2 and 3 are written.
C7_Witness ==
    /\ pc = "returned"
    /\ NumTasks = 3
    /\ future_to_ocr[1].raised
    /\ GoodText(2) /\ GoodText(3)
    /\ document.written
    /\ Len(document.entries) = 2
    /\ processed_image_count = 3

\* C8: in a batch of N > 0 tasks the completed values of the progress events
\* increase, every event carries total = N, and once the loop is left the last
\* event is (N, N).
C8_ProgressMonotone ==
    NumTasks > 0 =>
       /\ \A n \in 1..Len(progress) : progress[n][2] = NumTasks
       /\ \A n, m \in 1..Len(progress) : n < m => progress[n][1] < progress[m][1]
       /\ pc \in {"write", "returned"} =>
            /\ Len(progress) > 0
            /\ progress[Len(progress)] = <<NumTasks, NumTasks>>

\* C8 witness: a finished batch of three tasks with events (0,3) ... (3,3).
C8_Witness ==
    /\ pc = "returned"
    /\ NumTasks = 3
    /\ progress = << <<0, 3>>, <<1, 3>>, <<2, 3>>, <<3, 3>> >>

\* No name of the input directory matches filename_pattern.
NoMatchingName ==
    \A k \in 1..Len(input_folder.names) : ~Matches(input_folder.names[k])

\* C9: with an existing input directory and no matching filename the call emits
\* one progress event, (0,0), submits nothing, starts no worker and writes
\* nothing.
C9_NoMatchingFiles ==
    (input_folder.exists /\ NoMatchingName) =>
       /\ future_to_ocr = <<>>
       /\ pool_threads = 0
       /\ srt_entries = <<>>
       /\ ~document.written
       /\ (pc # "returned" \/ ~listed) => progress = <<>>
       /\ (pc = "returned" /\ listed) =>
            progress = << <<0, 0>> >> /\ returned = "False"

\* C9 witness: a directory of two non-matching names, the call returned after
\* the filter loop.
C9_Witness ==
    /\ pc = "returned"
    /\ listed
    /\ Len(input_folder.names) = 2
    /\ image_files_temp = <<>>
    /\ progress = << <<0, 0>> >>

\* C10: with the input directory missing nothing starts: no enumeration, no
\* output directory, no submission, no progress event, no document; the call
\* returns False.
C10_InputNotFound ==
    ~input_folder.exists =>
       /\ ~listed
       /\ ~output_folder_made
       /\ future_to_ocr = <<>>
       /\ pool_threads = 0
       /\ progress = <<>>
       /\ ~document.written
       /\ pc \in {"start", "configure", "check_input", "returned"}
       /\ pc = "returned" => returned = "False"

\* C10 witness: the call returned at line 110, with a credential and a client.
C10_Witness ==
    /\ pc = "returned"
    /\ ~input_folder.exists
    /\ api_key # ""
    /\ Len(log) = 2
    /\ log[2].kind = "Error: Input folder not found."

\* C11: ocr_image_with_gemini is invoked exactly once per task: futures are only
\* added, never more than one per task; a future goes from PENDING to RUNNING
\* once and from RUNNING to FINISHED once, whatever its outcome, and never back;
\* when the loop is left every task has its finished future.
C11_OncePerTask ==
    [][ /\ Len(future_to_ocr') >= Len(future_to_ocr)
        /\ Len(future_to_ocr') <= Len(image_tasks_metadata')
        /\ \A j \in 1..Len(future_to_ocr) :
              \/ future_to_ocr'[j] = future_to_ocr[j]
              \/ future_to_ocr[j].state = "PENDING" /\ future_to_ocr'[j].state = "RUNNING"
              \/ future_to_ocr[j].state = "RUNNING" /\ future_to_ocr'[j].state = "FINISHED"
        /\ (pc' \in {"write", "returned"} /\ Len(image_tasks_metadata') > 0) =>
              /\ Len(future_to_ocr') = Len(image_tasks_metadata')
              /\ \A j \in 1..Len(future_to_ocr') : future_to_ocr'[j].state = "FINISHED"
      ]_vars

\* C11 witness: a finished batch of three tasks, one ended in a failure marker
\* and one in an exception, each future finished.
C11_Witness ==
    /\ pc = "returned"
    /\ NumTasks = 3
    /\ Len(future_to_ocr) = 3
    /\ \A j \in 1..3 : future_to_ocr[j].state = "FINISHED"
    /\ future_to_ocr[1].result = "[OCR Error]"
    /\ future_to_ocr[2].raised

(***************************************************************************)
(* The task builder alone (lines 91-143), over a wider set of names.       *)
(***************************************************************************)
MaxDecodeFiles == 3

\* 1_02_03_004__1_02_05_006_frame.jpg
FileFrame ==
    Stamp(<<"1">>, <<"0","2">>, <<"0","3">>, <<"0","0","4">>) \o <<"_","_">> \o
    Stamp(<<"1">>, <<"0","2">>, <<"0","5">>, <<"0","0","6">>) \o
    <<"_", "f", "r", "a", "m", "e">> \o DotJpg

\* 100_00_00_000__123_59_59_999.jpg : hours above 99
FileWide ==
    Stamp(<<"1","0","0">>, <<"0","0">>, <<"0","0">>, <<"0","0","0">>) \o <<"_","_">> \o
    Stamp(<<"1","2","3">>, <<"5","9">>, <<"5","9">>, <<"9","9","9">>) \o DotJpg

\* 0_75_00_000__0_75_61_000.jpg : minute 75, second 61
FileBadMinute ==
    Stamp(<<"0">>, <<"7","5">>, <<"0","0">>, <<"0","0","0">>) \o <<"_","_">> \o
    Stamp(<<"0">>, <<"7","5">>, <<"6","1">>, <<"0","0","0">>) \o DotJpg

\* cover.JPEG
FileCover == <<"c", "o", "v", "e", "r", ".", "J", "P", "E", "G">>

\* 2_00_01_000__2_00_02_500.png
FilePng ==
    Stamp(<<"2">>, <<"0","0">>, <<"0","1">>, <<"0","0","0">>) \o <<"_","_">> \o
    Stamp(<<"2">>, <<"0","0">>, <<"0","2">>, <<"5","0","0">>) \o <<".", "p", "n", "g">>

DecodeNames ==
    {FileA, FileB, FileD, FileE, FileFrame, FileWide, FileBadMinute, FileCover, FilePng}

DecodeListings ==
    { l \in UNION { [1..n -> DecodeNames] : n \in 0..MaxDecodeFiles } :
        \A a, b \in 1..Len(l) : a # b => l[a] # l[b] }

InitDecode ==
    /\ api_key = "key"
    /\ input_folder \in { [exists |-> TRUE, names |-> l] : l \in DecodeListings }
    /\ num_threads = 1
    /\ pc = "start"
    /\ output_folder_made = FALSE
    /\ listed = FALSE
    /\ all_files_in_input = <<>>
    /\ image_files_temp = <<>>
    /\ image_tasks_metadata = <<>>
    /\ total_images = 0
    /\ srt_entries = <<>>
    /\ srt_counter = 1
    /\ processed_image_count = 0
    /\ future_to_ocr = <<>>
    /\ pool_threads = 0
    /\ i = 1
    /\ log = <<>>
    /\ worker_log = {}
    /\ progress = <<>>
    /\ document = NoDocument
    /\ returned = "none"
    /\ GuiConstructed

NextDecode ==
    \/ CheckApiKey
    \/ ConfigureModel
    \/ CheckInputFolder
    \/ MakeOutputFolder
    \/ ListInputFolder
    \/ FilterFiles
    \/ CheckNoImages
    \/ SortFiles
    \/ BuildTasks

SpecDecode == InitDecode /\ [][NextDecode]_vars

\* C12: every task has start and end minutes and seconds in 0..59 and
\* milliseconds in 0..999, so that a filename with a minute or second field
\* outside 0..59 never becomes a task.
C12_FieldsInRange ==
    \A t \in 1..Len(image_tasks_metadata) :
        LET groups == PatternGroups(image_tasks_metadata[t].filename)
        IN  /\ ToInt(groups[2]) \in 0..59
            /\ ToInt(groups[3]) \in 0..59
            /\ ToInt(groups[4]) \in 0..999
            /\ ToInt(groups[6]) \in 0..59
            /\ ToInt(groups[7]) \in 0..59
            /\ ToInt(groups[8]) \in 0..999

\* The fields of a rendered time, counted from its end: H..H:MM:SS,mmm
HoursOf(s) == SubSeq(s, 1, Len(s) - 10)
MinutesOf(s) == SubSeq(s, Len(s) - 8, Len(s) - 7)
SecondsOf(s) == SubSeq(s, Len(s) - 5, Len(s) - 4)
MillisOf(s) == SubSeq(s, Len(s) - 2, Len(s))

\* The rendered time s shows the filename fields h, m, sec, ms: minutes and
\* seconds as the same two digits, milliseconds as the same three digits, hours
\* with the same value in at least two digits, padded with zeros only up to two.
RendersFields(s, h, m, sec, ms) ==
    /\ Len(s) >= 12
    /\ s[Len(s) - 9] = ":" /\ s[Len(s) - 6] = ":" /\ s[Len(s) - 3] = ","
    /\ \A k \in 1..Len(HoursOf(s)) : HoursOf(s)[k] \in Digits
    /\ Len(HoursOf(s)) >= 2
    /\ Len(HoursOf(s)) > 2 => HoursOf(s)[1] # "0"
    /\ ToInt(HoursOf(s)) = ToInt(h)
    /\ (Len(h) >= 2 /\ h[1] # "0") => HoursOf(s) = h
    /\ MinutesOf(s) = m
    /\ SecondsOf(s) = sec
    /\ MillisOf(s) = ms

\* C13: the start and end times of every task show the numeric fields of its
\* filename, two digits for minutes and seconds, three for milliseconds, hours
\* padded to two digits and widened beyond 99; the example file gives
\* 01:02:03,004 and 01:02:05,006.
C13_RoundTrip ==
    \A t \in 1..Len(image_tasks_metadata) :
        LET task == image_tasks_metadata[t]
            groups == PatternGroups(task.filename)
        IN  /\ RendersFields(task.start_time_str,
                             groups[1], groups[2], groups[3], groups[4])
            /\ RendersFields(task.end_time_str,
                             groups[5], groups[6], groups[7], groups[8])
            /\ task.filename = FileFrame =>
                 /\ task.start_time_str =
                      <<"0","1",":","0","2",":","0","3",",","0","0","4">>
                 /\ task.end_time_str =
                      <<"0","1",":","0","2",":","0","5",",","0","0","6">>
            /\ task.filename = FileWide =>
                 /\ task.start_time_str =
                      <<"1","0","0",":","0","0",":","0","0",",","0","0","0">>
                 /\ task.end_time_str =
                      <<"1","2","3",":","5","9",":","5","9",",","9","9","9">>

\* C13 witness: the example file and the file with hours above 99 are tasks.
C13_Witness ==
    /\ Len(image_tasks_metadata) >= 2
    /\ \E t \in 1..Len(image_tasks_metadata) :
          image_tasks_metadata[t].filename = FileFrame
    /\ \E t \in 1..Len(image_tasks_metadata) :
          /\ image_tasks_metadata[t].filename = FileWide
          /\ Len(image_tasks_metadata[t].start_time_str) = 13

\* The filter loop of lines 116-122 has run over the whole listing.
FilterDone == listed /\ pc \notin {"filter"}

\* How often a name was appended to the task files, and reported as skipped.
TimesTaken(f) ==
    Cardinality({ p \in 1..Len(image_files_temp) : image_files_temp[p] = f })
TimesReported(f) ==
    Cardinality({ n \in 1..Len(log) :
        log[n].kind = "Skipping file (doesn't match naming pattern)" /\ log[n].file = f })
TimesLogged(f) == Cardinality({ n \in 1..Len(log) : log[n].file = f })

\* C14: after the filter loop every directory entry is in exactly one case: a
\* matching name is a task file once and not reported; a non-matching name
\* ending in .jpg/.jpeg in any case is reported once and no task; any other
\* name is no task and in no log line. The names of the model fall in the
\* cases the pattern gives them.
C14_ThreeOutcomes ==
    FilterDone =>
      \A k \in 1..Len(all_files_in_input) :
        LET f == all_files_in_input[k]
        IN  /\ Matches(f) => TimesTaken(f) = 1 /\ TimesReported(f) = 0
            /\ (~Matches(f) /\ HasJpegExtension(f)) =>
                  TimesTaken(f) = 0 /\ TimesReported(f) = 1 /\ TimesLogged(f) = 1
            /\ (~Matches(f) /\ ~HasJpegExtension(f)) =>
                  TimesTaken(f) = 0 /\ TimesLogged(f) = 0
            /\ f \in {FileA, FileB, FileFrame, FileWide, FileBadMinute} => TimesTaken(f) = 1
            /\ f \in {FileD, FileCover} => TimesReported(f) = 1
            /\ f \in {FileE, FilePng} => TimesLogged(f) = 0

\* C14 witness: a listing with one name of each case, after the filter loop.
C14_Witness ==
    /\ FilterDone
    /\ all_files_in_input = <<FileCover, FileFrame, FilePng>>
    /\ image_files_temp = <<FileFrame>>
    /\ TimesReported(FileCover) = 1

\* The call returned through the except branch of lines 196-198.
WriteFailed ==
    /\ pc = "returned"
    /\ Len(log) > 0
    /\ log[Len(log)].kind = "Error writing SRT file"

\* C15 as stated: when the write fails the call reports failure and the entries
\* assembled in memory remain available to the caller.
C15_EntriesKeptForCaller ==
    WriteFailed => returned = "False" /\ CallerEntries = srt_entries

\* C15 as amended: when the write fails the call reports failure after every
\* recognition call has been made, and the entries it assembled are not among
\* what the caller gets.
C15_WriteFailureReported ==
    WriteFailed =>
       /\ returned = "False"
       /\ srt_entries # <<>> => CallerEntries # srt_entries
       /\ Len(future_to_ocr) = NumTasks
       /\ \A j \in 1..Len(future_to_ocr) : future_to_ocr[j].state = "FINISHED"

\* C15 witness: the write failed with three entries assembled.
C15_Witness ==
    /\ WriteFailed
    /\ Len(srt_entries) = 3
    /\ returned = "False"

\* genai.configure or GenerativeModel raised (lines 104-106).
ClientFailed ==
    \E n \in 1..Len(log) : log[n].kind = "Error configuring Gemini or creating model"

\* C16: with a credential, a client, an existing input directory holding a
\* matching file and a write that succeeds, the call returns True and the
\* document is written, whatever the results of the tasks, also when no entry
\* survives.
C16_SuccessWhateverResults ==
    ( /\ pc = "returned"
      /\ api_key # ""
      /\ ~ClientFailed
      /\ input_folder.exists
      /\ ~NoMatchingName
      /\ ~WriteFailed )
    => /\ returned = "True"
       /\ document.written
       /\ \A j \in 1..NumTasks : future_to_ocr[j].state = "FINISHED"

\* C16 witness: three tasks ended in empty text, a failure marker and an
\* exception; the document is written with no entry and the call returned True.
C16_Witness ==
    /\ pc = "returned"
    /\ NumTasks = 3
    /\ future_to_ocr[1].result = "" /\ ~future_to_ocr[1].raised
    /\ future_to_ocr[2].result = "[File Not Found]"
    /\ future_to_ocr[3].raised
    /\ document.written
    /\ document.entries = <<>>
    /\ returned = "True"

\* C17: every task is submitted before the collection loop starts, the calls
\* start in task order, and with all workers busy the tasks that wait in the
\* queue number at most N - W.
C17_SubmitAllThenCollect ==
    /\ pc \in {"collect_log", "collect_result", "write", "returned"} =>
          Len(future_to_ocr) = NumTasks
    /\ pc = "submit" =>
          /\ processed_image_count = 0
          /\ progress = << <<0, NumTasks>> >>
          /\ \A n \in 1..Len(log) : log[n].kind # "Done"
    /\ \A j, k \in 1..Len(future_to_ocr) :
          (j < k /\ future_to_ocr[k].state # "PENDING") => future_to_ocr[j].state # "PENDING"
    /\ Cardinality(Running) = num_threads =>
          Cardinality(Queued) <= NumTasks - num_threads

\* C17 witness: the loop waits for task 1, still running, while task 2 has
\* already finished and task 3 waits in the queue: N - W = 1 task queued.
C17_Witness ==
    /\ pc = "collect_result"
    /\ i = 1
    /\ NumTasks = 3
    /\ num_threads = 2
    /\ future_to_ocr[1].state = "RUNNING"
    /\ future_to_ocr[2].state = "FINISHED"
    /\ future_to_ocr[3].state = "PENDING"
    /\ Cardinality(Queued) = NumTasks - num_threads

\* C18: an event (k, N) with k >= 1 is emitted only when the calls of tasks 1..k
\* have all finished, and the events after the initial one are one per
\* collected task, whatever its outcome.
C18_ProgressAfterOutcome ==
    NumTasks > 0 =>
       /\ \A n \in 1..Len(progress) :
             \A j \in 1..progress[n][1] :
                 j <= Len(future_to_ocr) /\ future_to_ocr[j].state = "FINISHED"
       /\ Len(progress) > 0 => Len(progress) = 1 + CollectedCount
       /\ \A j \in 1..Len(future_to_ocr) :
             Collected(j) => progress[j + 1] = <<j, NumTasks>>

\* C18 witness: events (1,3) and (2,3) are out, task 2 ended in an exception,
\* task 1 in a failure marker, and task 3 is still running.
C18_Witness ==
    /\ NumTasks = 3
    /\ progress = << <<0, 3>>, <<1, 3>>, <<2, 3>> >>
    /\ future_to_ocr[1].result = "[OCR Stopped]"
    /\ future_to_ocr[2].raised
    /\ future_to_ocr[3].state = "RUNNING"

(***************************************************************************)
(* Termination of the batch. From the first submission on, the calling     *)
(* thread and the pool threads run when they can (weak fairness of their   *)
(* steps); that every recognition call eventually returns is weak fairness *)
(* of WorkerFinish. Nothing is assumed of the steps before the batch.      *)
(***************************************************************************)
BatchThread ==
    \/ Submit
    \/ CollectLog
    \/ CollectResult
    \/ WriteDocument

\* Directories whose names all match the pattern, called with a credential.
InitLive ==
    /\ Init
    /\ api_key = "key"
    /\ input_folder.exists
    /\ \A k \in 1..Len(input_folder.names) : Matches(input_folder.names[k])

SpecLive ==
    /\ InitLive
    /\ [][Next]_vars
    /\ WF_vars(BatchThread)
    /\ WF_vars(WorkerStart)
    /\ WF_vars(WorkerFinish)

\* C19: a batch of N > 0 tasks whose calls all return is collected to the end:
\* from the first submission on, the call eventually returns with all N
\* outcomes counted and (N, N) as its last progress event.
C19_BatchCompletes ==
    (pc = "submit") ~>
        ( /\ pc = "returned"
          /\ processed_image_count = NumTasks
          /\ Len(progress) > 0
          /\ progress[Len(progress)] = <<NumTasks, NumTasks>>
          /\ returned # "none" )

\* C19 witness: three tasks on one worker, collected to the end and returned.
C19_Witness ==
    /\ pc = "returned"
    /\ NumTasks = 3
    /\ num_threads = 1
    /\ processed_image_count = 3
    /\ Len(progress) = 4
    /\ progress[4] = <<3, 3>>


\* C20: the collector's line "Done : <filename> (i/N)" of task i is in the log
\* only once the recognition call of task i has finished.
C20_DoneAfterCallFinished ==
    \A n \in 1..Len(log) :
        log[n].kind = "Done" =>
            /\ log[n].num <= Len(future_to_ocr)
            /\ future_to_ocr[log[n].num].state = "FINISHED"


(***************************************************************************)
(* The window: App.start_processing_thread, App.run_core_processing, the   *)
(* log queue and its periodic draining (lines 332-503).                    *)
(*                                                                         *)
(* The core is seen here through what it does to the window: the calls of  *)
(* log_callback and progress_callback it makes, in order, and the way it   *)
(* ends. A message is its fixed text (paths, names and numbers left out of *)
(* the text and kept in the fields current and total).                     *)
(***************************************************************************)
MaxBatches == 2
MaxGuiTasks == 2

coreVars == << api_key, input_folder, num_threads, pc, output_folder_made, listed,
               all_files_in_input, image_files_temp, image_tasks_metadata,
               total_images, srt_entries, srt_counter, processed_image_count,
               future_to_ocr, pool_threads, i, log, worker_log, progress,
               document, returned >>

Message(text, current, total) == [text |-> text, current |-> current, total |-> total]

\* line 333: what log_message(message) puts on the queue
log_message(text) == Message(text, 0, 0)

\* line 360: f"PROGRESS:{current}:{total}"
update_progress(current, total) == Message("PROGRESS:", current, total)

\* line 343: message.startswith("PROGRESS:")
IsProgress(message) == message.text = "PROGRESS:"

\* The phrases of lines 458-465 that a message text holds.
Phrases(text) ==
    CASE text = "Input folder: " -> {"Input folder"}
      [] text = "Error configuring Gemini or creating model: " -> {"Error configuring Gemini"}
      [] text = "No images found matching the required filename pattern." -> {"No images found"}
      [] text = "API Key file GEMINI_API_KEY.ini not found. Please enter API key manually." -> {"not found"}
      [] OTHER -> {}

\* phrase in log_content, for log_content = self.log_text.get("1.0", tk.END)
InLogContent(phrase, log_content) ==
    \E text \in log_content : phrase \in Phrases(text)

\* lines 91-95
Header ==
    << log_message("Starting processing with worker thread(s)..."),
       log_message("Input folder: "),
       log_message("Output folder: "),
       log_message("Output SRT file: "),
       log_message("Using Gemini model: ") >>

\* lines 151-152 and 167-187: the calling thread's messages of a batch of n tasks
BatchMessages(n) ==
    << log_message("Found images to process."), update_progress(0, n) >> \o
    [j \in 1..(2 * n) |->
        IF j % 2 = 1 THEN Message("Done : ", (j + 1) \div 2, n)
        ELSE update_progress(j \div 2, n)]

\* The ways a call of the core made by the window can go.
CoreRuns ==
    { [kind |-> k, n |-> 0] : k \in {"configure_error", "no_images", "raised"} } \cup
    { [kind |-> k, n |-> m] : k \in {"written", "write_failed"}, m \in 1..MaxGuiTasks }

\* The callback calls of one run of process_images_to_srt_core, in order.
CoreMessages(run) ==
    CASE run.kind = "configure_error" ->
           Header \o << log_message("Error configuring Gemini or creating model: ") >>
      [] run.kind = "no_images" ->
           Header \o << log_message("No images found matching the required filename pattern."),
                        update_progress(0, 0) >>
      [] run.kind = "written" ->
           Header \o BatchMessages(run.n) \o
           << log_message("Successfully created SRT file: "),
              log_message("Total subtitle entries written: ") >>
      [] run.kind = "write_failed" ->
           Header \o BatchMessages(run.n) \o
           << log_message("Error writing SRT file to ") >>
      [] run.kind = "raised" -> Header

\* How the call ends: its return value, or "raise" (os.makedirs, os.listdir).
CoreResult(run) ==
    CASE run.kind = "written" -> "True"
      [] run.kind = "raised" -> "raise"
      [] OTHER -> "False"

\* lines 444-480: success_flag and the final message run_core_processing settles on
FinalMessage(result, log_content) ==
    IF result = "raise"
    THEN [success_flag |-> FALSE, type |-> "error", title |-> "Critical Processing Error"]
    ELSE IF result = "True"
    THEN [success_flag |-> TRUE, type |-> "info", title |-> "Success"]
    ELSE IF \/ InLogContent("API Key is not set", log_content)
            \/ InLogContent("Error configuring Gemini", log_content)
    THEN [success_flag |-> FALSE, type |-> "error", title |-> "API/Configuration Error"]
    ELSE IF /\ InLogContent("Input folder", log_content)
            /\ InLogContent("not found", log_content)
    THEN [success_flag |-> FALSE, type |-> "error", title |-> "Input Error"]
    ELSE IF \/ InLogContent("No images found", log_content)
            \/ InLogContent("No valid image tasks", log_content)
    THEN [success_flag |-> FALSE, type |-> "info", title |-> "No Images Processed"]
    ELSE [success_flag |-> FALSE, type |-> "warning", title |-> "Processing Incomplete"]

\* lines 449, 454, 477: the status line run_core_processing sets
FinalStatus(result) ==
    CASE result = "True" -> "Processing complete!"
      [] result = "False" -> "Processing finished with issues or no suitable images."
      [] result = "raise" -> "Critical Error: "

\* lines 506-513: the message __main__ logs once the window exists, and the
\* first check_log_queue of the main loop displays
StartupMessages ==
    { log_message("API Key loaded from GEMINI_API_KEY.ini."),
      log_message("API Key file GEMINI_API_KEY.ini not found. Please enter API key manually.") }

\* The main loop runs and has displayed the startup message; the core, whose
\* variables the window does not touch, has not been called.
InitGui ==
    /\ api_key = "key"
    /\ input_folder = [exists |-> TRUE, names |-> <<>>]
    /\ num_threads = 1
    /\ pc = "start"
    /\ output_folder_made = FALSE
    /\ listed = FALSE
    /\ all_files_in_input = <<>>
    /\ image_files_temp = <<>>
    /\ image_tasks_metadata = <<>>
    /\ total_images = 0
    /\ srt_entries = <<>>
    /\ srt_counter = 1
    /\ processed_image_count = 0
    /\ future_to_ocr = <<>>
    /\ pool_threads = 0
    /\ i = 1
    /\ log = <<>>
    /\ worker_log = {}
    /\ progress = <<>>
    /\ document = NoDocument
    /\ returned = "none"
    /\ process_button = "normal"
    /\ status_var = "Ready."
    /\ log_queue = <<>>
    /\ \E m \in StartupMessages : log_text = { m.text }
    /\ progress_label_var = Label("count", 0, 0)
    /\ threads = {}
    /\ after_callbacks = <<>>
    /\ finishing = <<>>
    /\ batches = 0
    /\ batch = NoRun


\* The values of the entry fields when the button is pressed.
Form(key, isdir, folder, filename, count) ==
    [ api_key |-> key, input_folder_isdir |-> isdir, output_folder |-> folder,
      output_filename |-> filename, num_threads |-> count ]

Forms ==
    { Form("", TRUE, "out", "subs.srt", 1),
      Form("key", FALSE, "out", "subs.srt", 1),
      Form("key", TRUE, "", "subs.srt", 1),
      Form("key", TRUE, "out", "", 1),
      Form("key", TRUE, "out", "subs.srt", 1),
      Form("key", TRUE, "out", "subs", 0) }

\* lines 399-419: the dialog that ends start_processing_thread early, "" when none
ValidationError(form) ==
    IF form.api_key = "" THEN "API Key Missing"
    ELSE IF ~form.input_folder_isdir THEN "Input Folder Invalid"
    ELSE IF form.output_folder = "" THEN "Output Folder Error"
    ELSE IF form.output_filename = "" THEN "Output Filename Missing"
    ELSE ""

\* lines 413-416: the message logged when ".srt" is appended to the filename
FilenameMessages(form) ==
    IF form.output_filename = "subs.srt" THEN <<>>
    ELSE << log_message("Appended .srt to filename: ") >>

\* a bug that leaves the button enabled while the batch runs
ProcessButtonOnStartNormal == "normal"

\* line 426: self.process_button.config(state=tk.DISABLED)
ProcessButtonOnStart == "disabled"

\* lines 391-437: the command of the Process button. A disabled button and a
\* window under a modal dialog take no press. A form that fails a check of
\* lines 399-419 gets an error dialog and the handler returns with the window
\* as it was; a thread count below 1 gets a warning and 1 is used.
start_processing_thread ==
    /\ process_button = "normal"
    /\ finishing = <<>>
    /\ \E form \in Forms :
          IF ValidationError(form) # ""
          THEN UNCHANGED << process_button, status_var, log_queue, log_text,
                            progress_label_var, threads, batches, batch >>
          ELSE \E run \in CoreRuns :
                  /\ batches < MaxBatches
                  /\ log_queue' = log_queue \o FilenameMessages(form)
                  /\ process_button' = ProcessButtonOnStart
                  /\ status_var' = "Processing... Please wait."
                  /\ log_text' = {}
                  /\ progress_label_var' = Label("count", 0, 0)
                  /\ threads' = threads \cup
                         { [id |-> batches + 1, run |-> run, at |-> 0] }
                  /\ batches' = batches + 1
                  /\ batch' = run
    /\ UNCHANGED << after_callbacks, finishing >>
    /\ UNCHANGED coreVars

\* lines 445-448: inside the core, the next call of log_callback or
\* progress_callback puts its message on the queue
core_callback ==
    /\ \E t \in threads :
          /\ t.at < Len(CoreMessages(t.run))
          /\ log_queue' = Append(log_queue, CoreMessages(t.run)[t.at + 1])
          /\ threads' = (threads \ {t}) \cup {[t EXCEPT !.at = t.at + 1]}
    /\ UNCHANGED << process_button, status_var, log_text, progress_label_var,
                    after_callbacks, finishing, batches, batch >>
    /\ UNCHANGED coreVars

\* a bug that leaves root.after out of the exception path (no finally)
AfterFinallyOnlyOnReturn(result, closure) ==
    IF result = "raise" THEN after_callbacks ELSE Append(after_callbacks, closure)

\* lines 482-503: finally: self.root.after(0, update_gui_on_finish)
AfterFinally(result, closure) == Append(after_callbacks, closure)

\* lines 439-503: the core call returns or raises; run_core_processing sets the
\* status line, reads the log display to choose the final message, schedules
\* update_gui_on_finish on the main loop and ends
run_core_processing ==
    /\ \E t \in threads :
          /\ t.at = Len(CoreMessages(t.run))
          /\ LET result == CoreResult(t.run)
             IN  /\ log_queue' =
                        IF result = "raise"
                        THEN Append(log_queue,
                                    log_message("An unexpected error occurred in run_core_processing: "))
                        ELSE log_queue
                 /\ status_var' = FinalStatus(result)
                 /\ after_callbacks' = AfterFinally(result, FinalMessage(result, log_text))
          /\ threads' = threads \ {t}
    /\ UNCHANGED << process_button, log_text, progress_label_var, finishing,
                    batches, batch >>
    /\ UNCHANGED coreVars

\* lines 362-374: the label a PROGRESS message sets
process_progress_update(message) ==
    IF message.total > 0 THEN Label("count", message.current, message.total)
    ELSE Label("count", 0, 0)

\* lines 339-357: check_log_queue, every 100 ms, also while a dialog is open:
\* every queued message is taken in order, a PROGRESS message sets the label,
\* any other message is appended to the log display
update_log_display ==
    /\ log_queue # <<>>
    /\ LET ticks == SelectSeq(log_queue, IsProgress)
           lines == SelectSeq(log_queue, LAMBDA m : ~IsProgress(m))
       IN  /\ log_text' = log_text \cup { lines[k].text : k \in 1..Len(lines) }
           /\ progress_label_var' =
                  IF ticks = <<>> THEN progress_label_var
                  ELSE process_progress_update(ticks[Len(ticks)])
    /\ log_queue' = <<>>
    /\ UNCHANGED << process_button, status_var, threads, after_callbacks, finishing,
                    batches, batch >>
    /\ UNCHANGED coreVars

\* lines 483-491: update_gui_on_finish enables the button and opens the dialog
\* of the final message (final_message_details is set on every path)
update_gui_on_finish ==
    /\ after_callbacks # <<>>
    /\ finishing = <<>>
    /\ process_button' = "normal"
    /\ finishing' = << Head(after_callbacks) >>
    /\ after_callbacks' = Tail(after_callbacks)
    /\ UNCHANGED << status_var, log_queue, log_text, progress_label_var, threads,
                    batches, batch >>
    /\ UNCHANGED coreVars

\* lines 493-500: the label the finish callback leaves, from the label it reads.
\* "Finished with issues".split('/') has one part and the unpacking raises;
\* "N/N (Failed)".split('/') gives unequal parts.
LabelOnFinish(success_flag, label) ==
    LET is_complete_progress ==
            label.text = "count" /\ label.current = label.total /\ label.total # 0
    IN  IF label.text = "Finished with issues" THEN label
        ELSE IF ~success_flag /\ ~is_complete_progress
        THEN Label("Finished with issues", 0, 0)
        ELSE IF ~success_flag /\ is_complete_progress
        THEN Label("(Failed)", label.current, label.total)
        ELSE label

\* lines 492-500: the dialog is dismissed and update_gui_on_finish ends
dialog_dismissed ==
    /\ finishing # <<>>
    /\ progress_label_var' = LabelOnFinish(finishing[1].success_flag, progress_label_var)
    /\ finishing' = <<>>
    /\ UNCHANGED << process_button, status_var, log_queue, log_text, threads,
                    after_callbacks, batches, batch >>
    /\ UNCHANGED coreVars

NextGui ==
    \/ start_processing_thread
    \/ core_callback
    \/ run_core_processing
    \/ update_log_display
    \/ update_gui_on_finish
    \/ dialog_dismissed

SpecGui == InitGui /\ [][NextGui]_vars


(***************************************************************************)
(* Properties of the window.                                               *)
(***************************************************************************)
\* C21: at most one run_core_processing thread exists at any time, and from
\* the launch of a batch until its finish callback runs the Process button is
\* disabled, so that no second batch is started.
C21_OneBatchAtATime ==
    /\ Cardinality(threads) + Len(after_callbacks) <= 1
    /\ (threads # {} \/ after_callbacks # <<>>) => process_button = "disabled"

\* C21 witness: a second batch runs, launched after the first one finished.
C21_Witness ==
    /\ batches = 2
    /\ \E t \in threads : t.id = 2 /\ t.at > 0
    /\ process_button = "disabled"
    /\ finishing = <<>>


(***************************************************************************)
(* The batch ends. The core call returns or raises: weak fairness of the   *)
(* background thread's steps. The main loop runs the callbacks root.after  *)
(* holds: weak fairness of update_gui_on_finish. Nothing is assumed of the *)
(* user, who may leave a dialog open for ever.                             *)
(***************************************************************************)
SpecGuiLive ==
    /\ InitGui
    /\ [][NextGui]_vars
    /\ WF_vars(core_callback)
    /\ WF_vars(run_core_processing)
    /\ WF_vars(update_gui_on_finish)

\* C22: whenever a batch has disabled the Process button, the button is
\* eventually enabled again, whether the core returns True, returns False or
\* raises.
C22_ButtonReenabled ==
    (process_button = "disabled") ~> (process_button = "normal")

\* C22 witness: the core raised, and the finish callback of that batch has
\* enabled the button and opened the dialog of the critical error.
C22_Witness ==
    /\ batch.kind = "raised"
    /\ threads = {}
    /\ finishing # <<>>
    /\ finishing[1].title = "Critical Processing Error"
    /\ process_button = "normal"


\* C23: when the core returned False because no file of the input directory
\* matches the pattern, the dialog the finish callback opens is the
\* information dialog "No Images Processed", however the background thread
\* interleaves with the draining of the log queue into the log display.
C23_NoImagesDialog ==
    (finishing # <<>> /\ batch.kind = "no_images") =>
        finishing[1].type = "info" /\ finishing[1].title = "No Images Processed"

\* C24: when all N > 0 tasks were processed and writing the document failed,
\* the progress label reads "N/N (Failed)" once the log queue is drained and
\* the finish callback has run, however the queued progress messages
\* interleave with the finish callback.
C24_FailedLabel ==
    ( /\ batch.kind = "write_failed"
      /\ threads = {}
      /\ after_callbacks = <<>>
      /\ finishing = <<>>
      /\ log_queue = <<>> ) =>
        progress_label_var = Label("(Failed)", batch.n, batch.n)

====
